---- MODULE Spec2Model ----
(***************************************************************************)
(* A model of turadg/browser-sdk:                                          *)
(*   - Batch / HttpRequest            (src/src/core/transport.ts)          *)
(*   - TraceIdentifier, traceXhr, traceFetch, traceAndInject,              *)
(*     startRequestCollection, trackXhr, trackFetch (src/unnamed/part_000) *)
(*                                                                         *)
(* Three specifications share the variables; each leaves the variables of  *)
(* the other parts at their initial values:                                *)
(*   SpecBatch    the Batch buffer and its flush triggers                  *)
(*   SpecId       TraceIdentifier construction and toString(radix)         *)
(*   SpecRequest  the XHR / fetch instrumentation and its events           *)
(* Spec is the interleaving of all of them.                                *)
(***************************************************************************)
EXTENDS Integers, Sequences, FiniteSets, TLC

VARIABLES
    \* ---- Batch (transport.ts 27-88) and its environment
    bytesLimit,          \* Batch.bytesLimit
    maxSize,             \* Batch.maxSize
    requestBytesLimit,   \* HttpRequest.bytesLimit
    buffer,              \* Batch.buffer: sequence of processed messages [id, size]
    bufferBytesSize,     \* Batch.bufferBytesSize
    sendBeacon,          \* navigator.sendBeacon is defined
    batches,             \* the number of Batch instances constructed: this one, whose
                         \* fields are kept, and the others of the page
    beforeunloadListeners,     \* listeners on window 'beforeunload', in registration order
    visibilitychangeListeners, \* listeners on document 'visibilitychange'
    timers,              \* pending setTimeout callbacks of flushTic
    beforeFlushOnUnloadHandlers, \* the module-level handler array (number of handlers)
    added,               \* number of add() calls so far (the id of the last message)
    lastOp,              \* the handler that ran last, and the size of the message given to add()
    flushes,             \* the flush() invocations of the last handler, in order
    sent,                \* the HttpRequest.send calls of the last handler, in order
    delivered,           \* the ids of the messages handed to HttpRequest.send so far,
                         \* in the order they left
    \* ---- TraceIdentifier (part_000 42-78)
    idBuffer,            \* TraceIdentifier.buffer: 8 bytes, <<>> before construction
    idRadix,             \* the radix of the last toString(radix) call, 0 before it
    idStr,               \* the string it returned, as the sequence of its characters
    \* ---- request collection (part_000 97-159, 243-379) and its environment
    cryptoAvailable,     \* window.crypto.getRandomValues works
    origin,              \* the global `origin` (window.origin)
    locationOrigin,      \* window.location.origin
    hasFetch,            \* window.fetch is defined
    windowName,          \* the global `name` (window.name)
    tracerActive,        \* window.ddtrace is there and its tracer's scope is active
    nextRequestId,       \* nextRequestId
    requestObservablesSingleton, \* 0 while undefined, else the pair of observables
    observables,         \* number of observable pairs created so far
    returned,            \* the pairs startRequestCollection has returned
    xhrWrappers,         \* number of trackXhr wrappers around XMLHttpRequest.prototype.open / send
    fetchWrappers,       \* number of trackFetch wrappers around window.fetch
    minted,              \* number of TraceIdentifiers constructed
    xhr,                 \* the XMLHttpRequest objects of the page
    calls,               \* requestId -> the closure state of the wrapper call that got it
    promises,            \* the promises the original fetch has returned
    events,              \* the events notified on the two observables, in order
    appCalls,            \* per surface, the number of send() / fetch() calls the page
                         \* made through the wrappers
    lastCall             \* the last send() / fetch() call of the page and its outcome

batchVars == <<bytesLimit, maxSize, requestBytesLimit, buffer, bufferBytesSize,
               sendBeacon, batches, beforeunloadListeners, visibilitychangeListeners, timers,
               beforeFlushOnUnloadHandlers, added, lastOp, flushes, sent, delivered>>

idVars == <<idBuffer, idRadix, idStr>>

requestVars == <<cryptoAvailable, origin, locationOrigin, hasFetch, windowName,
                 tracerActive,
                 nextRequestId, requestObservablesSingleton, observables, returned,
                 xhrWrappers, fetchWrappers, minted, xhr, calls, promises, events,
                 appCalls, lastCall>>

vars == <<batchVars, idVars, requestVars>>

\* ------------------------------------------------------------------ bounds

BytesLimit == 100
MaxSize == 10
MaxAdds == 12
MaxHandlers == 1
MaxBatches == 2
MaxRequests == 2
MaxStarts == 2

\* byte sizes of the serialized messages handed to add(): small ones, one that
\* overflows a part-filled buffer, the sizes around the limit, and oversized ones
MsgSizes == {5, 60, BytesLimit - 7, BytesLimit - 6, BytesLimit, BytesLimit + 1}

\* the size of the record a beforeFlushOnUnload handler adds
HandlerMsgSize == 5

\* ------------------------------------------------------------------ helpers

Last(s) == s[Len(s)]

\* ================================================================== Batch

\* HttpRequest.send: sendBeacon when available and the size is under the request's
\* limit, an XMLHttpRequest POST otherwise.  data is the joined buffer, kept as the
\* sequence of its elements.
send(data, size) ==
    [data |-> data,
     size |-> size,
     via  |-> IF sendBeacon /\ size < requestBytesLimit THEN "sendBeacon" ELSE "xhr"]

\* The state a Batch method works on: the two fields, and the calls made so far
\* by the running handler.
BatchState == [buffer |-> buffer, bufferBytesSize |-> bufferBytesSize,
               sent |-> <<>>, flushes |-> <<>>, added |-> added]

\* Variant of flush with the emptiness test dropped.
flushUnguarded(b) ==
    [b EXCEPT !.sent = Append(@, send(b.buffer, b.bufferBytesSize + Len(b.buffer) - 1)),
              !.buffer = <<>>,
              !.bufferBytesSize = 0]

\* Batch.flush
flush(b) ==
    IF Len(b.buffer) # 0
    THEN [b EXCEPT !.sent = Append(@, send(b.buffer, b.bufferBytesSize + Len(b.buffer) - 1)),
                   !.buffer = <<>>,
                   !.bufferBytesSize = 0]
    ELSE b

\* A call of this.flush() / batch.flush() by `caller`: the call is recorded in
\* flushes with the buffer length before it, the number of send calls it made and
\* the buffer it left.
callFlush(b, caller) ==
    LET a == flush(b)
    IN  [a EXCEPT !.flushes = Append(@, [caller     |-> caller,
                                         before     |-> Len(b.buffer),
                                         sends      |-> Len(a.sent) - Len(b.sent),
                                         after      |-> Len(a.buffer),
                                         bytesAfter |-> a.bufferBytesSize])]

\* Variant of push that puts the message in front of the buffer.
pushFront(b, processedMessage, messageBytesSize) ==
    [b EXCEPT !.buffer = <<processedMessage>> \o @,
              !.bufferBytesSize = @ + messageBytesSize]

\* Batch.push
push(b, processedMessage, messageBytesSize) ==
    [b EXCEPT !.buffer = Append(@, processedMessage),
              !.bufferBytesSize = @ + messageBytesSize]

\* Variant of willReachedBytesLimitWith that never asks for the pre-flush.
willReachedBytesLimitWithNever(b, messageBytesSize) == FALSE

\* Variant of willReachedBytesLimitWith that leaves the separators out.
willReachedBytesLimitWithoutSeparators(b, messageBytesSize) ==
    b.bufferBytesSize + messageBytesSize >= bytesLimit

\* Batch.willReachedBytesLimitWith: n + 1 elements, n bytes of separator
willReachedBytesLimitWith(b, messageBytesSize) ==
    LET separatorsBytesSize == Len(b.buffer)
    IN  b.bufferBytesSize + messageBytesSize + separatorsBytesSize >= bytesLimit

\* Variant of isFull that only looks at the number of elements.
isFullCountOnly(b) == Len(b.buffer) = maxSize

\* Batch.isFull
isFull(b) == Len(b.buffer) = maxSize \/ b.bufferBytesSize >= bytesLimit

\* Batch.add, after process() has produced the message and its size
add(b, processedMessage, messageBytesSize) ==
    LET b1 == IF willReachedBytesLimitWith(b, messageBytesSize)
              THEN callFlush(b, "add-pre") ELSE b
        b2 == push(b1, processedMessage, messageBytesSize)
    IN  IF isFull(b2) THEN callFlush(b2, "add-post") ELSE b2

\* the beforeunload listener that runs the beforeFlushOnUnload handlers: each
\* handler adds one record to the batch
RECURSIVE runHandlers(_, _, _)
runHandlers(b, n, nextId) ==
    IF n = 0 THEN b
    ELSE runHandlers([add(b, [id |-> nextId, size |-> HandlerMsgSize], HandlerMsgSize)
                         EXCEPT !.added = nextId],
                     n - 1, nextId + 1)

\* one listener of flushOnVisibilityHidden, run on its event.  The listeners of
\* another Batch flush that other Batch; the listener that runs the handlers is
\* the same for every Batch.
runListener(b, listener, visibilityState) ==
    CASE listener = "runHandlers"   -> runHandlers(b, beforeFlushOnUnloadHandlers, b.added + 1)
      [] listener = "flushIfHidden" -> IF visibilityState = "hidden"
                                       THEN callFlush(b, "visibilitychange") ELSE b
      [] listener = "flush"         -> callFlush(b, "beforeunload")
      [] listener = "flushOtherIfHidden" -> b
      [] listener = "flushOther"    -> b

RECURSIVE dispatch(_, _, _)
dispatch(b, listeners, visibilityState) ==
    IF listeners = <<>> THEN b
    ELSE dispatch(runListener(b, Head(listeners), visibilityState),
                  Tail(listeners), visibilityState)

\* Variant of flushOnVisibilityHidden that registers without looking at sendBeacon.
flushOnVisibilityHiddenAlways(batch, beacon) ==
    [beforeunload     |-> <<"runHandlers", IF batch = "this" THEN "flush" ELSE "flushOther">>,
     visibilitychange |-> <<IF batch = "this" THEN "flushIfHidden" ELSE "flushOtherIfHidden">>]

\* flushOnVisibilityHidden(batch): the listeners it registers, for this Batch or
\* another one
flushOnVisibilityHidden(batch, beacon) ==
    IF beacon
    THEN [beforeunload     |-> <<"runHandlers",
                                 IF batch = "this" THEN "flush" ELSE "flushOther">>,
          visibilitychange |-> <<IF batch = "this" THEN "flushIfHidden"
                                 ELSE "flushOtherIfHidden">>]
    ELSE [beforeunload |-> <<>>, visibilitychange |-> <<>>]

\* the listeners of the Batch instances constructed before this one
RECURSIVE EarlierListeners(_, _)
EarlierListeners(n, beacon) ==
    IF n = 0 THEN [beforeunload |-> <<>>, visibilitychange |-> <<>>]
    ELSE LET rest == EarlierListeners(n - 1, beacon)
             other == flushOnVisibilityHidden("other", beacon)
         IN  [beforeunload     |-> rest.beforeunload \o other.beforeunload,
              visibilitychange |-> rest.visibilitychange \o other.visibilitychange]

\* the state after `new HttpRequest(url, limit)` and `new Batch(request, ...)`
InitBatch ==
    /\ bytesLimit = BytesLimit
    /\ maxSize = MaxSize
    /\ requestBytesLimit \in {BytesLimit, BytesLimit \div 2}
    /\ buffer = <<>>
    /\ bufferBytesSize = 0
    /\ sendBeacon \in BOOLEAN
    /\ batches \in 1..MaxBatches
    /\ beforeunloadListeners =
           EarlierListeners(batches - 1, sendBeacon).beforeunload
               \o flushOnVisibilityHidden("this", sendBeacon).beforeunload
    /\ visibilitychangeListeners =
           EarlierListeners(batches - 1, sendBeacon).visibilitychange
               \o flushOnVisibilityHidden("this", sendBeacon).visibilitychange
    /\ timers = 1
    /\ beforeFlushOnUnloadHandlers = 0
    /\ added = 0
    /\ lastOp = [name |-> "new", size |-> 0]
    /\ flushes = <<>>
    /\ sent = <<>>
    /\ delivered = <<>>

\* the fields a handler leaves alone
BatchFrame ==
    /\ UNCHANGED <<bytesLimit, maxSize, requestBytesLimit, sendBeacon>>
    /\ UNCHANGED <<idVars, requestVars>>

\* the listeners stay registered
Registered == UNCHANGED <<batches, beforeunloadListeners, visibilitychangeListeners>>

\* the ids of the messages in a buffer, in its order
Ids(data) == [i \in 1..Len(data) |-> data[i].id]

\* the ids of the messages in a sequence of send calls, in the order they left
RECURSIVE IdsSent(_)
IdsSent(calls_) ==
    IF calls_ = <<>> THEN <<>>
    ELSE Ids(Head(calls_).data) \o IdsSent(Tail(calls_))

Commit(b, op, size) ==
    /\ buffer' = b.buffer
    /\ bufferBytesSize' = b.bufferBytesSize
    /\ sent' = b.sent
    /\ delivered' = delivered \o IdsSent(b.sent)
    /\ flushes' = b.flushes
    /\ lastOp' = [name |-> op, size |-> size]

\* batch.add(message)
Add ==
    /\ added < MaxAdds
    /\ \E size \in MsgSizes :
          Commit(add(BatchState, [id |-> added + 1, size |-> size], size), "add", size)
    /\ added' = added + 1
    /\ UNCHANGED <<timers, beforeFlushOnUnloadHandlers>>
    /\ Registered
    /\ BatchFrame

\* batch.flush() called directly
Flush ==
    /\ Commit(callFlush(BatchState, "explicit"), "flush", 0)
    /\ UNCHANGED <<timers, beforeFlushOnUnloadHandlers, added>>
    /\ Registered
    /\ BatchFrame

\* Variant of FlushTic that flushes and arms no next timer.
FlushTicOnce ==
    /\ timers > 0
    /\ Commit(callFlush(BatchState, "timer"), "timer", 0)
    /\ timers' = timers - 1
    /\ UNCHANGED <<beforeFlushOnUnloadHandlers, added>>
    /\ UNCHANGED <<batches, beforeunloadListeners, visibilitychangeListeners>>
    /\ UNCHANGED <<bytesLimit, maxSize, requestBytesLimit, sendBeacon>>
    /\ UNCHANGED <<idVars, requestVars>>

\* the setTimeout callback of flushTic: flush, then flushTic() arms the next timer
FlushTic ==
    /\ timers > 0
    /\ Commit(callFlush(BatchState, "timer"), "timer", 0)
    /\ timers' = (timers - 1) + 1
    /\ UNCHANGED <<beforeFlushOnUnloadHandlers, added>>
    /\ Registered
    /\ BatchFrame

\* document 'visibilitychange'
VisibilityChange ==
    /\ \E visibilityState \in {"hidden", "visible"} :
          Commit(dispatch(BatchState, visibilitychangeListeners, visibilityState),
                 visibilityState, 0)
    /\ UNCHANGED <<timers, beforeFlushOnUnloadHandlers, added>>
    /\ Registered
    /\ BatchFrame

\* window 'beforeunload'
BeforeUnload ==
    /\ added + beforeFlushOnUnloadHandlers * Len(beforeunloadListeners) <= MaxAdds
    /\ LET b == dispatch(BatchState, beforeunloadListeners, "visible")
       IN  /\ Commit(b, "beforeunload", 0)
           /\ added' = b.added
    /\ UNCHANGED <<timers, beforeFlushOnUnloadHandlers>>
    /\ Registered
    /\ BatchFrame

\* beforeFlushOnUnload(handler)
BeforeFlushOnUnload ==
    /\ beforeFlushOnUnloadHandlers < MaxHandlers
    /\ beforeFlushOnUnloadHandlers' = beforeFlushOnUnloadHandlers + 1
    /\ lastOp' = [name |-> "beforeFlushOnUnload", size |-> 0]
    /\ flushes' = <<>>
    /\ sent' = <<>>
    /\ UNCHANGED <<buffer, bufferBytesSize, timers, added, delivered>>
    /\ Registered
    /\ BatchFrame

\* new Batch(...) for another Batch of the page: its listeners come after the
\* ones registered so far
NewBatch ==
    /\ batches < MaxBatches
    /\ batches' = batches + 1
    /\ beforeunloadListeners' =
           beforeunloadListeners \o flushOnVisibilityHidden("other", sendBeacon).beforeunload
    /\ visibilitychangeListeners' =
           visibilitychangeListeners
               \o flushOnVisibilityHidden("other", sendBeacon).visibilitychange
    /\ lastOp' = [name |-> "new Batch", size |-> 0]
    /\ flushes' = <<>>
    /\ sent' = <<>>
    /\ UNCHANGED <<buffer, bufferBytesSize, timers, added, delivered,
                   beforeFlushOnUnloadHandlers>>
    /\ BatchFrame

NextBatch ==
    \/ Add
    \/ NewBatch
    \/ Flush
    \/ FlushTic
    \/ VisibilityChange
    \/ BeforeUnload
    \/ BeforeFlushOnUnload


\* ================================================================== TraceIdentifier

(***************************************************************************)
(* The identifier is 63 bits wide and its two words are 32 bits wide, more *)
(* than the model checker's integers hold.  A number is therefore kept as  *)
(* the big-endian sequence of its base-256 digits without leading zeros    *)
(* (<<>> is 0), and the arithmetic of toString is done on that form.  The  *)
(* operators below are the exact integer operations; JavaScript's doubles  *)
(* agree with them while every value stays under 2^53 (C8 checks that the  *)
(* values toString computes stay under 2^48).                              *)
(***************************************************************************)

RECURSIVE Norm(_)
Norm(n) == IF n # <<>> /\ Head(n) = 0 THEN Norm(Tail(n)) ELSE n

Pad(n, len) == [i \in 1..(len - Len(n)) |-> 0] \o n

RECURSIVE AddFrom(_, _, _, _, _)
AddFrom(x, y, i, carry, acc) ==
    IF i = 0 THEN <<carry>> \o acc
    ELSE LET sum == x[i] + y[i] + carry
         IN  AddFrom(x, y, i - 1, sum \div 256, <<sum % 256>> \o acc)

\* a + b
Plus(a, b) ==
    LET len == IF Len(a) > Len(b) THEN Len(a) ELSE Len(b)
    IN  Norm(AddFrom(Pad(a, len), Pad(b, len), len, 0, <<>>))

RECURSIVE MulFrom(_, _, _, _, _)
MulFrom(x, k, i, carry, acc) ==
    IF i = 0 THEN <<carry \div 256, carry % 256>> \o acc
    ELSE LET prod == x[i] * k + carry
         IN  MulFrom(x, k, i - 1, prod \div 256, <<prod % 256>> \o acc)

\* a * k, for a small k
Times(a, k) == Norm(MulFrom(a, k, Len(a), 0, <<>>))

RECURSIVE LongDiv(_, _, _, _)
LongDiv(n, d, rem, quot) ==
    IF n = <<>> THEN [quot |-> Norm(quot), rem |-> rem]
    ELSE LET cur == rem * 256 + Head(n)
         IN  LongDiv(Tail(n), d, cur % d, Append(quot, cur \div d))

\* Math.floor(a / d) and a % d, for a small d
FloorDiv(a, d) == LongDiv(a, d, 0, <<>>).quot
Mod(a, d) == LongDiv(a, d, 0, <<>>).rem

\* a small number in the sequence form
Num(k) == Norm(<<k \div 256, k % 256>>)

\* b * 16777216, b << 16, b << 8 and h * 4294967296
Times16777216(b) == Norm(<<b, 0, 0, 0>>)
ShiftLeft16(b) == Norm(<<b, 0, 0>>)
ShiftLeft8(b) == Norm(<<b, 0>>)
Times4294967296(h) == Norm(h \o <<0, 0, 0, 0>>)

\* Number.prototype.toString(radix) of one digit value: radix 2..36
DigitChars == << "0", "1", "2", "3", "4", "5", "6", "7", "8", "9",
                 "a", "b", "c", "d", "e", "f", "g", "h", "i", "j",
                 "k", "l", "m", "n", "o", "p", "q", "r", "s", "t",
                 "u", "v", "w", "x", "y", "z" >>
DigitToString(d) == DigitChars[d + 1]
ValidRadix == 2..Len(DigitChars)

\* `this.buffer[0] & 0x7f`
And0x7f(b) == b % 128

\* the TraceIdentifier constructor: random bytes, then force 63-bit
TraceIdentifierBuffer(random) == [random EXCEPT ![1] = And0x7f(@)]

\* Variant of readInt32 that reads the word least significant byte first.
readInt32LittleEndian(buf, offset) ==
    Plus(Plus(Plus(Times16777216(buf[offset + 4]), ShiftLeft16(buf[offset + 3])),
              ShiftLeft8(buf[offset + 2])),
         Num(buf[offset + 1]))

\* TraceIdentifier.readInt32 (buffer[k] of the source is buf[k + 1] here)
readInt32(buf, offset) ==
    Plus(Plus(Plus(Times16777216(buf[offset + 1]), ShiftLeft16(buf[offset + 2])),
              ShiftLeft8(buf[offset + 3])),
         Num(buf[offset + 4]))

\* `mod` of one round of the loop of toString
modOf(high, low, radix) == Plus(Times4294967296(Num(Mod(high, radix))), low)

\* one round of the loop of TraceIdentifier.toString, on its locals:
\*   mod = (high % radix) * 4294967296 + low
\*   high = Math.floor(high / radix); low = Math.floor(mod / radix)
\*   str = (mod % radix).toString(radix) + str
toStringRound(l, radix) ==
    LET mod == modOf(l.high, l.low, radix)
    IN  [high |-> FloorDiv(l.high, radix),
         low  |-> FloorDiv(mod, radix),
         str  |-> <<DigitToString(Mod(mod, radix))>> \o l.str,
         mod  |-> mod]

\* the rest of the loop after a round: `if (!high && !low) { break }`, else
\* another round
RECURSIVE toStringLoop(_, _)
toStringLoop(l, radix) ==
    IF l.high = <<>> /\ l.low = <<>> THEN l.str
    ELSE toStringLoop(toStringRound(l, radix), radix)

\* TraceIdentifier.toString
toString(buf, radix) ==
    toStringLoop(toStringRound([high |-> readInt32(buf, 0),
                                low  |-> readInt32(buf, 4),
                                str  |-> <<>>,
                                mod  |-> <<>>], radix), radix)

\* the bytes window.crypto.getRandomValues may deliver, per position
RandomBytes(i) ==
    CASE i = 1 -> {0, 1, 127, 128, 255}
      [] i = 5 -> {0, 128, 255}
      [] OTHER -> {0, 255}

InitId ==
    /\ idBuffer = <<>>
    /\ idRadix = 0
    /\ idStr = <<>>

\* new TraceIdentifier()
NewTraceIdentifier ==
    /\ idBuffer = <<>>
    /\ \E b1 \in RandomBytes(1), b2 \in RandomBytes(2), b3 \in RandomBytes(3),
          b4 \in RandomBytes(4), b5 \in RandomBytes(5), b6 \in RandomBytes(6),
          b7 \in RandomBytes(7), b8 \in RandomBytes(8) :
          idBuffer' = TraceIdentifierBuffer(<<b1, b2, b3, b4, b5, b6, b7, b8>>)
    /\ UNCHANGED <<idRadix, idStr>>
    /\ UNCHANGED <<batchVars, requestVars>>

\* traceId.toString(radix), the first call on an identifier (a later call returns
\* the same string: toString reads the buffer and writes nothing)
CallToString ==
    /\ idBuffer # <<>>
    /\ idRadix = 0
    /\ \E radix \in ValidRadix :
          /\ idRadix' = radix
          /\ idStr' = toString(idBuffer, radix)
    /\ UNCHANGED idBuffer
    /\ UNCHANGED <<batchVars, requestVars>>

NextId ==
    \/ NewTraceIdentifier
    \/ CallToString


\* ================================================================== request collection

\* trace identifiers, as the wrappers and the events carry them
Undefined == [kind |-> "undefined", n |-> 0]
UpstreamTraceId == [kind |-> "upstream", n |-> 0]      \* the tracer's _traceId
MintedTraceId(n) == [kind |-> "minted", n |-> n]       \* the n-th new TraceIdentifier()

\* a request header; traceId.toString(10) is kept as the identifier it was made of
Header(name, value, traceId) == [name |-> name, value |-> value, traceId |-> traceId]

\* the five headers of traceXhr / traceFetch
TraceHeaders(traceId) ==
    { Header("x-datadog-trace-id", "traceId.toString(10)", traceId),
      Header("x-datadog-parent-id", "traceId.toString(10)", traceId),
      Header("x-datadog-origin", "rum", Undefined),
      Header("x-datadog-sampling-priority", "1", Undefined),
      Header("x-datadog-sampled", "1", Undefined) }

TraceHeaderNames == { h.name : h \in TraceHeaders(Undefined) }

\* where a request goes, seen from the page
Urls == {"same-origin", "cross-origin"}

\* the init argument of fetch(input, init): undefined, or an object with an
\* optional method and optional headers, which are a plain object or a Headers
NoInit == [defined |-> FALSE, method |-> "", headersKind |-> "undefined", headers |-> {}]
EmptyInit == [NoInit EXCEPT !.defined = TRUE]
AppHeader == Header("x-app", "1", Undefined)
Inits == { NoInit,
           [EmptyInit EXCEPT !.method = "POST", !.headersKind = "plain",
                             !.headers = {AppHeader}],
           [EmptyInit EXCEPT !.headersKind = "Headers", !.headers = {AppHeader}] }

\* the values the tracing functions and the fetch wrappers hand around: undefined,
\* a TraceIdentifier, the caller's init, the { init, traceId } object of
\* traceFetch, a promise of the original fetch
Value(shape) == [shape |-> shape, init |-> NoInit, traceId |-> Undefined, promise |-> 0]
UndefinedValue == Value("undefined")
TraceIdentifierValue(traceId) == [Value("TraceIdentifier") EXCEPT !.traceId = traceId]
InitValue(init) == IF init.defined THEN [Value("init") EXCEPT !.init = init]
                   ELSE UndefinedValue
TraceResult(init, traceId) == [Value("result") EXCEPT !.init = init, !.traceId = traceId]
PromiseValue(p) == [Value("promise") EXCEPT !.promise = p]

\* value.traceId and value.init: only the { init, traceId } object has them
GetTraceId(value) == IF value.shape = "result" THEN value.traceId ELSE Undefined
GetInit(value) == IF value.shape = "result" THEN value.init ELSE NoInit

\* the identifier a value is, when it is a TraceIdentifier
AsTraceId(value) == IF value.shape = "TraceIdentifier" THEN value.traceId ELSE Undefined

\* init.headers[name] = value for each new header, on a plain object or through
\* Headers.set: a header of the same name is replaced
SetHeaders(headers, new) ==
    { h \in headers : h.name \notin { n.name : n \in new } } \cup new

\* Object.keys of a string: its indices
ObjectKeys(string) == IF string = "" THEN {} ELSE {"0", "1"}

\* XMLHttpRequest.DONE
DONE == 4

\* a new XMLHttpRequest()
NewXhr == [readyState         |-> 0,
           sendFlag           |-> FALSE,      \* send() was called since the last open()
           url                |-> "none",
           datadog_xhr        |-> "undefined",  \* _datadog_xhr: "undefined", or its url
           headers            |-> {},
           onreadystatechange |-> <<>>,       \* the chain of wrappers, outermost first
           loadend            |-> <<>>,       \* the 'loadend' listeners, in registration order
           status             |-> 0]

\* the XMLHttpRequest objects a page may have, numbered by their first open()
XhrIds == {1, 2}

\* a send() / fetch() call of the page, as the page sees it
NoCall == [surface      |-> "none",
           target       |-> 0,           \* the XMLHttpRequest object
           url          |-> "none",
           given        |-> NoInit,      \* the init the page gave to fetch
           wrappers     |-> 0,           \* the wrappers the call went through
           threw        |-> FALSE,       \* the call threw to the page
           ret          |-> UndefinedValue, \* what the call returned to the page
           starts       |-> 0,           \* the start events notified during the call
           mints        |-> 0,           \* the TraceIdentifiers constructed during it
           originals    |-> 0,           \* the calls of the original send / fetch
           passed       |-> {},          \* the headers set when the original send ran
           passedInit   |-> NoInit]      \* the init the original fetch got

\* the module state the wrappers read and write, with the outcome of the running
\* call: threw (an exception is propagating), ret (what the last callee returned),
\* originals (how often the call reached the original send / fetch)
RequestState == [nextRequestId |-> nextRequestId,
                 minted        |-> minted,
                 xhr           |-> xhr,
                 calls         |-> calls,
                 promises      |-> promises,
                 events        |-> events,
                 threw         |-> FALSE,
                 ret           |-> UndefinedValue,
                 originals     |-> 0,
                 passed        |-> {},
                 passedInit    |-> NoInit]

StartEvent(requestId) ==
    [kind |-> "start", requestId |-> requestId, type |-> "", method |-> "",
     status |-> 0, response |-> "", traceId |-> Undefined]

CompleteEvent(requestId, type, method, status, response, traceId) ==
    [kind |-> "complete", requestId |-> requestId, type |-> type, method |-> method,
     status |-> status, response |-> response, traceId |-> traceId]

\* Variant of notify that loses the start events.
notifyCompleteOnly(m, event) ==
    IF event.kind = "start" THEN m ELSE [m EXCEPT !.events = Append(@, event)]

\* observable.notify(event)
notify(m, event) == [m EXCEPT !.events = Append(@, event)]

\* monitor(fn): an exception of the wrapped function is reported and swallowed,
\* and the call returns undefined
monitor(m) == IF m.threw THEN [m EXCEPT !.threw = FALSE, !.ret = UndefinedValue] ELSE m

\* a TypeError is thrown
throwTypeError(m) == [m EXCEPT !.threw = TRUE]

\* toStackTraceString(computeStackTrace(error)): the name of the error, its message
\* and its frames
toStackTraceString == "Error: Failed to fetch"

\* getNextRequestId: the id handed out is the old nextRequestId
getNextRequestId(m) == [m EXCEPT !.nextRequestId = @ + 1]

\* new TraceIdentifier(): window.crypto.getRandomValues throws when unavailable
newTraceIdentifier(m) ==
    IF cryptoAvailable
    THEN [m EXCEPT !.minted = @ + 1, !.ret = TraceIdentifierValue(MintedTraceId(m.minted + 1))]
    ELSE throwTypeError(m)

\* the closure traceXhr gives to traceAndInject.  The test is
\* `origin !== window.location.origin`, on the global origin.
injectXhr(m, x, traceId) ==
    IF origin # locationOrigin
    THEN [m EXCEPT !.ret = UndefinedValue]
    ELSE [m EXCEPT !.xhr[x].headers = @ \cup TraceHeaders(traceId),
                   !.ret = TraceIdentifierValue(traceId)]

\* the closure traceFetch gives to traceAndInject: the same test; a Headers
\* object gets the keys of the global `name`
injectFetch(m, init, traceId) ==
    IF origin # locationOrigin
    THEN [m EXCEPT !.ret = InitValue(init)]
    ELSE LET init1 == IF init.defined THEN init ELSE EmptyInit
             init2 == IF init1.headersKind = "undefined"
                      THEN [init1 EXCEPT !.headersKind = "plain"]
                      ELSE init1
             headers == TraceHeaders(traceId)
             init3 == IF init2.headersKind = "Headers"
                      THEN [init2 EXCEPT !.headers = SetHeaders(@,
                               { Header(key, "undefined", Undefined) :
                                     key \in ObjectKeys(windowName) })]
                      ELSE [init2 EXCEPT !.headers = SetHeaders(@, headers)]
         IN  [m EXCEPT !.ret = TraceResult(init3, traceId)]

\* the closures, as what they captured
InjectXhr(x) == [of |-> "traceXhr", xhr |-> x, init |-> NoInit]
InjectFetch(init) == [of |-> "traceFetch", xhr |-> 0, init |-> init]

\* inject(traceId)
callInject(m, inject, traceId) ==
    IF inject.of = "traceXhr"
    THEN injectXhr(m, inject.xhr, traceId)
    ELSE injectFetch(m, inject.init, traceId)

\* traceAndInject: with an active upstream scope the tracer's identifier is
\* returned as it is, else a new one goes through inject
traceAndInject(m, inject) ==
    IF tracerActive
    THEN [m EXCEPT !.ret = TraceIdentifierValue(UpstreamTraceId)]
    ELSE LET m1 == newTraceIdentifier(m)
         IN  IF m1.threw THEN m1 ELSE callInject(m1, inject, m1.ret.traceId)

traceXhr(m, x) == traceAndInject(m, InjectXhr(x))

traceFetch(m, init) == traceAndInject(m, InjectFetch(init))

\* Variant of startRequestCollection that installs the wrappers at every call.
startRequestCollectionAlways(r) ==
    [singleton     |-> r.observables + 1,
     observables   |-> r.observables + 1,
     xhrWrappers   |-> r.xhrWrappers + 1,
     fetchWrappers |-> IF hasFetch THEN r.fetchWrappers + 1 ELSE r.fetchWrappers]

\* startRequestCollection, on the singleton and the wrapped prototypes: trackXhr
\* wraps open and send, trackFetch wraps window.fetch when there is one
startRequestCollection(r) ==
    IF r.singleton = 0
    THEN [singleton     |-> r.observables + 1,
          observables   |-> r.observables + 1,
          xhrWrappers   |-> r.xhrWrappers + 1,
          fetchWrappers |-> IF hasFetch THEN r.fetchWrappers + 1 ELSE r.fetchWrappers]
    ELSE r

\* XMLHttpRequest.prototype.open as trackXhr leaves it: each wrapper stores
\* _datadog_xhr and calls the one it wrapped; the original opens the request,
\* dropping the author headers and a request in flight.  The send wrapper calls
\* whose request is dropped before any of its completion signals are from then
\* on abandoned.
RECURSIVE xhrOpen(_, _, _, _)
xhrOpen(m, x, url, wrappers) ==
    IF wrappers = 0
    THEN [m EXCEPT !.xhr[x].readyState = 1,
                   !.xhr[x].sendFlag = FALSE,
                   !.xhr[x].url = url,
                   !.xhr[x].headers = {},
                   !.xhr[x].status = 0,
                   !.calls = [id \in DOMAIN m.calls |->
                                 IF /\ m.calls[id].type = "xhr"
                                    /\ m.calls[id].target = x
                                    /\ m.calls[id].signals = {}
                                 THEN [m.calls[id] EXCEPT !.abandoned = TRUE]
                                 ELSE m.calls[id]]]
    ELSE xhrOpen([m EXCEPT !.xhr[x].datadog_xhr = url], x, url, wrappers - 1)

\* reportXhr of the send wrapper call that got requestId.  Reading
\* this._datadog_xhr.method throws when open() did not go through the wrapper.
reportXhr(m, requestId) ==
    LET c == m.calls[requestId]
    IN  IF c.hasBeenReported THEN m
        ELSE LET m1 == [m EXCEPT !.calls[requestId].hasBeenReported = TRUE]
             IN  IF m1.xhr[c.target].datadog_xhr = "undefined"
                 THEN throwTypeError(m1)
                 ELSE notify(m1, CompleteEvent(requestId, "xhr", "GET",
                                               m1.xhr[c.target].status,
                                               "response", c.traceId))

\* the onreadystatechange chain: each wrapper reports when readyState is DONE,
\* then calls the handler it replaced
RECURSIVE onreadystatechange(_, _, _)
onreadystatechange(m, chain, readyState) ==
    IF chain = <<>> THEN m
    ELSE LET m1 == IF readyState = DONE
                   THEN monitor(reportXhr(
                            [m EXCEPT !.calls[Head(chain)].signals =
                                          @ \cup {"readystatechange"}],
                            Head(chain)))
                   ELSE m
         IN  onreadystatechange(m1, Tail(chain), readyState)

\* the 'loadend' listeners, each monitor(reportXhr)
RECURSIVE loadend(_, _)
loadend(m, listeners) ==
    IF listeners = <<>> THEN m
    ELSE loadend(monitor(reportXhr(
                     [m EXCEPT !.calls[Head(listeners)].signals = @ \cup {"loadend"}],
                     Head(listeners))),
                 Tail(listeners))

\* the closure of one call of the send wrapper: what it captured, its latch, the
\* completion signals its handlers have seen, and whether its request was
\* abandoned before any of them
XhrCall(x, traceId) ==
    [type |-> "xhr", target |-> x, traceId |-> traceId, method |-> "GET",
     hasBeenReported |-> FALSE, signals |-> {}, abandoned |-> FALSE]

\* the closure of one call of the fetch wrapper: target is the promise its
\* reportFetch is attached to, signals the settlements reportFetch was called with
FetchCall(p, traceId, method) ==
    [type |-> "fetch", target |-> p, traceId |-> traceId, method |-> method,
     hasBeenReported |-> FALSE, signals |-> {}, abandoned |-> FALSE]

\* XMLHttpRequest.prototype.send as trackXhr leaves it.  A wrapper is not
\* monitored: an exception of traceXhr leaves through the caller.
RECURSIVE xhrSend(_, _, _)
xhrSend(m, x, wrappers) ==
    IF wrappers = 0
    THEN [m EXCEPT !.xhr[x].sendFlag = TRUE,
                   !.originals = @ + 1,
                   !.passed = m.xhr[x].headers]
    ELSE LET requestId == m.nextRequestId
             m1 == traceXhr(getNextRequestId(m), x)
             m2 == notify(m1, StartEvent(requestId))
             m3 == [m2 EXCEPT !.calls = @ @@ (requestId :> XhrCall(x, AsTraceId(m1.ret))),
                              !.xhr[x].onreadystatechange = <<requestId>> \o @,
                              !.xhr[x].loadend = Append(@, requestId)]
         IN  IF m1.threw THEN m1 ELSE xhrSend(m3, x, wrappers - 1)

\* the method the fetch wrapper reports, for a string input
Method(init) == IF init.defined /\ init.method # "" THEN init.method ELSE "GET"

\* window.fetch as trackFetch leaves it.  Each wrapper is monitored: when reading
\* traceResult.traceId or responsePromise.then throws, it returns undefined.
RECURSIVE fetch(_, _, _)
fetch(m, init, wrappers) ==
    IF wrappers = 0
    THEN [m EXCEPT !.promises = Append(@, [state |-> "pending", handlers |-> <<>>]),
                   !.ret = PromiseValue(Len(m.promises) + 1),
                   !.originals = @ + 1,
                   !.passedInit = init]
    ELSE LET requestId == m.nextRequestId
             m1 == traceFetch(getNextRequestId(m), init)
             traceResult == m1.ret
             m2 == notify(m1, StartEvent(requestId))
             m3 == fetch(m2, GetInit(traceResult), wrappers - 1)
             responsePromise == m3.ret
             m4 == [m3 EXCEPT
                       !.promises[responsePromise.promise].handlers = Append(@, requestId),
                       !.calls = @ @@ (requestId :>
                                  FetchCall(responsePromise.promise,
                                            GetTraceId(traceResult), Method(init)))]
         IN  monitor(IF m1.threw THEN m1
                     ELSE IF traceResult.shape = "undefined" THEN throwTypeError(m1)
                     ELSE IF responsePromise.shape # "promise" THEN throwTypeError(m3)
                     ELSE m4)

\* the ways the promise of the original fetch settles: with a Response, or
\* rejected with the Error of a network failure
Settlements == {"response", "networkError"}

\* Variant of reportFetch that reports no rejection.
reportFetchResponsesOnly(m, requestId, settlement) ==
    [m EXCEPT !.calls[requestId].signals = @ \cup {settlement}]

\* reportFetch up to its await: an Error is reported at once, with status 0 and
\* its formatted stack trace; for a Response the text of a clone is awaited
reportFetch(m, requestId, settlement) ==
    LET c == m.calls[requestId]
        m1 == [m EXCEPT !.calls[requestId].signals = @ \cup {settlement}]
    IN  IF settlement = "networkError"
        THEN notify([m1 EXCEPT !.calls[requestId].hasBeenReported = TRUE],
                    CompleteEvent(requestId, "fetch", c.method, 0, toStackTraceString,
                                  c.traceId))
        ELSE m1

\* reportFetch after its await: the text, or the failure to read it, is reported
reportFetchText(m, requestId, text) ==
    LET c == m.calls[requestId]
    IN  notify([m EXCEPT !.calls[requestId].hasBeenReported = TRUE],
               CompleteEvent(requestId, "fetch", c.method, 200, text, c.traceId))

\* the promise settles: the handlers given to then() run in the order they were
\* attached, each monitor(reportFetch)
RECURSIVE settle(_, _, _)
settle(m, handlers, settlement) ==
    IF handlers = <<>> THEN m
    ELSE settle(monitor(reportFetch(m, Head(handlers), settlement)),
                Tail(handlers), settlement)

\* the pages the collection runs on: crypto (window.crypto.getRandomValues works),
\* origin (the global `origin`; "null" on a page with an opaque origin), fetch
\* (window.fetch is defined), name (the global `name`), tracer (a tracer with an
\* active scope, which stays active)
Page == [crypto |-> TRUE, origin |-> "https://page", fetch |-> TRUE, name |-> "",
         tracer |-> FALSE]
Pages == { Page,
           [Page EXCEPT !.tracer = TRUE],
           [Page EXCEPT !.crypto = FALSE],
           [Page EXCEPT !.origin = "null"],
           [Page EXCEPT !.fetch = FALSE],
           [Page EXCEPT !.name = "ab"] }

\* the page before startRequestCollection is called
InitRequest ==
    /\ \E page \in Pages :
          /\ cryptoAvailable = page.crypto
          /\ origin = page.origin
          /\ hasFetch = page.fetch
          /\ windowName = page.name
          /\ tracerActive = page.tracer
    /\ locationOrigin = "https://page"
    /\ nextRequestId = 1
    /\ requestObservablesSingleton = 0
    /\ observables = 0
    /\ returned = <<>>
    /\ xhrWrappers = 0
    /\ fetchWrappers = 0
    /\ minted = 0
    /\ \E ids \in {{1}, XhrIds} : xhr = [x \in ids |-> NewXhr]
    /\ calls = <<>>
    /\ promises = <<>>
    /\ events = <<>>
    /\ appCalls = [xhr |-> 0, fetch |-> 0]
    /\ lastCall = NoCall

Environment == <<cryptoAvailable, origin, locationOrigin, hasFetch, windowName,
                 tracerActive>>

Installation == <<requestObservablesSingleton, observables, returned, xhrWrappers,
                  fetchWrappers>>

RequestFrame ==
    /\ UNCHANGED Environment
    /\ UNCHANGED <<batchVars, idVars>>

CommitRequest(m) ==
    /\ nextRequestId' = m.nextRequestId
    /\ minted' = m.minted
    /\ xhr' = m.xhr
    /\ calls' = m.calls
    /\ promises' = m.promises
    /\ events' = m.events

\* the call the page just made, from the state m it ended in
Called(m, surface, x, url, init, wrappers) ==
    /\ lastCall' = [surface      |-> surface,
                    target       |-> x,
                    url          |-> url,
                    given        |-> init,
                    wrappers     |-> wrappers,
                    threw        |-> m.threw,
                    ret          |-> m.ret,
                    starts       |-> Len(m.events) - Len(events),
                    mints        |-> m.minted - minted,
                    originals    |-> m.originals,
                    passed       |-> m.passed,
                    passedInit   |-> m.passedInit]
    /\ appCalls' = [appCalls EXCEPT ![surface] = @ + 1]

\* startRequestCollection()
StartRequestCollection ==
    /\ Len(returned) < MaxStarts
    /\ LET r == startRequestCollection([singleton     |-> requestObservablesSingleton,
                                        observables   |-> observables,
                                        xhrWrappers   |-> xhrWrappers,
                                        fetchWrappers |-> fetchWrappers])
       IN  /\ requestObservablesSingleton' = r.singleton
           /\ observables' = r.observables
           /\ xhrWrappers' = r.xhrWrappers
           /\ fetchWrappers' = r.fetchWrappers
           /\ returned' = Append(returned, r.singleton)
    /\ UNCHANGED <<nextRequestId, minted, xhr, calls, promises, events, appCalls, lastCall>>
    /\ RequestFrame

\* xhr.open(method, url), on a new object or on one that was sent (which abandons
\* the request in flight), while a requestId is left for its send()
XhrOpen ==
    /\ \E x \in DOMAIN xhr, url \in Urls :
          /\ nextRequestId <= MaxRequests
          /\ \A earlier \in DOMAIN xhr : earlier < x => xhr[earlier].url # "none"
          /\ xhr[x].readyState = 1 => xhr[x].sendFlag
          /\ CommitRequest(xhrOpen(RequestState, x, url, xhrWrappers))
    /\ UNCHANGED <<Installation, appCalls, lastCall>>
    /\ RequestFrame

\* xhr.send(body) on an opened request, once the wrappers are there
XhrSend ==
    /\ xhrWrappers >= 1
    /\ nextRequestId + xhrWrappers - 1 <= MaxRequests
    /\ \E x \in DOMAIN xhr :
          /\ xhr[x].readyState = 1
          /\ ~xhr[x].sendFlag
          /\ LET m == xhrSend(RequestState, x, xhrWrappers)
             IN  /\ CommitRequest(m)
                 /\ Called(m, "xhr", x, xhr[x].url, NoInit, xhrWrappers)
    /\ UNCHANGED Installation
    /\ RequestFrame

\* the 'readystatechange' event of a sent request reaching DONE (again, if it
\* already had)
XhrReadyStateChange ==
    /\ \E x \in DOMAIN xhr :
          /\ xhr[x].sendFlag
          /\ LET m == [RequestState EXCEPT !.xhr[x].readyState = DONE,
                                           !.xhr[x].status = 200]
             IN  CommitRequest(onreadystatechange(m, m.xhr[x].onreadystatechange,
                                                  m.xhr[x].readyState))
    /\ UNCHANGED <<Installation, appCalls, lastCall>>
    /\ RequestFrame

\* the 'loadend' event of a sent request
XhrLoadEnd ==
    /\ \E x \in DOMAIN xhr :
          /\ xhr[x].sendFlag
          /\ CommitRequest(loadend(RequestState, xhr[x].loadend))
    /\ UNCHANGED <<Installation, appCalls, lastCall>>
    /\ RequestFrame

\* fetch(input, init) with a string input, once the wrapper is there.  The
\* wrapper hands input on as it is and reads nothing of its destination.
Fetch ==
    /\ fetchWrappers >= 1
    /\ nextRequestId + fetchWrappers - 1 <= MaxRequests
    /\ \E init \in Inits :
          LET m == fetch(RequestState, init, fetchWrappers)
          IN  /\ CommitRequest(m)
              /\ Called(m, "fetch", 0, "none", init, fetchWrappers)
    /\ UNCHANGED Installation
    /\ RequestFrame

\* the promise of an original fetch call settles
Settle ==
    /\ \E p \in DOMAIN promises, settlement \in Settlements :
          /\ promises[p].state = "pending"
          /\ CommitRequest(settle([RequestState EXCEPT !.promises[p].state = settlement],
                                  promises[p].handlers, settlement))
    /\ UNCHANGED <<Installation, appCalls, lastCall>>
    /\ RequestFrame

\* response.clone().text() of a reportFetch settles, with the text or rejected
BodyRead ==
    /\ \E requestId \in DOMAIN calls,
          text \in {"response", "Unable to retrieve response: e"} :
          /\ calls[requestId].type = "fetch"
          /\ "response" \in calls[requestId].signals
          /\ ~calls[requestId].hasBeenReported
          /\ CommitRequest(reportFetchText(RequestState, requestId, text))
    /\ UNCHANGED <<Installation, appCalls, lastCall>>
    /\ RequestFrame

\* the page uses XMLHttpRequest only
NextXhr ==
    \/ StartRequestCollection
    \/ XhrOpen
    \/ XhrSend
    \/ XhrReadyStateChange
    \/ XhrLoadEnd

\* the page uses fetch only
NextFetch ==
    \/ StartRequestCollection
    \/ Fetch
    \/ Settle
    \/ BodyRead

NextRequest ==
    \/ NextXhr
    \/ NextFetch


\* ================================================================== specifications

\* one Batch on a page with sendBeacon, left alone
IdleBatch == InitBatch /\ sendBeacon /\ requestBytesLimit = bytesLimit /\ batches = 1

\* a page that never starts the request collection
IdleRequest ==
    /\ InitRequest
    /\ cryptoAvailable /\ origin = locationOrigin /\ hasFetch /\ windowName = ""
    /\ ~tracerActive
    /\ DOMAIN xhr = {1}

InitSpecBatch == InitBatch /\ InitId /\ IdleRequest

SpecBatch == InitSpecBatch /\ [][NextBatch]_vars

InitSpecId == IdleBatch /\ InitId /\ IdleRequest

SpecId == InitSpecId /\ [][NextId]_vars

\* one Batch whose timer callback runs whenever it is due: setTimeout fires
\* every timer that stays pending
InitSpecTimer == IdleBatch /\ InitId /\ IdleRequest

\* the handlers of that Batch, on a page that constructs no other Batch and
\* registers no beforeFlushOnUnload handler
NextTimer ==
    \/ Add
    \/ Flush
    \/ FlushTic
    \/ VisibilityChange
    \/ BeforeUnload

SpecTimer == InitSpecTimer /\ [][NextTimer]_vars /\ WF_vars(FlushTic)

\* a page with one XMLHttpRequest object and fetch
InitSpecRequest == IdleBatch /\ InitId /\ InitRequest /\ DOMAIN xhr = {1}

SpecRequest == InitSpecRequest /\ [][NextRequest]_vars

\* the global `name` and window.fetch are nothing to XMLHttpRequest
InitSpecXhr ==
    /\ IdleBatch /\ InitId /\ InitRequest
    /\ hasFetch /\ windowName = ""
    /\ DOMAIN xhr = XhrIds

SpecXhr == InitSpecXhr /\ [][NextXhr]_vars

\* XMLHttpRequest objects left alone are nothing to fetch
InitSpecFetch == IdleBatch /\ InitId /\ InitRequest /\ DOMAIN xhr = {1}

SpecFetch == InitSpecFetch /\ [][NextFetch]_vars

Init == InitBatch /\ InitId /\ InitRequest

Next ==
    \/ NextBatch
    \/ NextId
    \/ NextRequest

Spec == Init /\ [][Next]_vars

\* ================================================================== claims: Batch

\* the message handed to the add() that ran last
AddedMessage == [id |-> added, size |-> lastOp.size]

\* C1: after every add() has returned (and after every other handler), the buffered
\* byte total is not greater than bytesLimit and the number of buffered records is
\* not greater than maxSize, whatever the record sizes.
C1_AddKeepsBufferWithinLimits ==
    /\ bufferBytesSize <= bytesLimit
    /\ Len(buffer) <= maxSize

\* C1 witness: add() was given a single record at or above bytesLimit on a
\* non-empty buffer; both flushes of add() ran and the buffer is empty.
C1_Witness_OversizedRecordAdded ==
    /\ lastOp.name = "add"
    /\ lastOp.size >= bytesLimit
    /\ Len(sent) = 2
    /\ sent[2].data = <<AddedMessage>>
    /\ buffer = <<>>

\* C9: every flush() invocation that found the buffer empty, whoever called it,
\* made no HttpRequest.send call and left the buffer empty with byte total 0.
C9_FlushOnEmptyIsNoOp ==
    \A i \in 1..Len(flushes) :
        flushes[i].before = 0 =>
            /\ flushes[i].sends = 0
            /\ flushes[i].after = 0
            /\ flushes[i].bytesAfter = 0

\* C9 witness: the pre-flush inside add() ran on an empty buffer (the record alone
\* reaches the limit), and the record was then delivered by the second flush.
C9_Witness_PreFlushOnEmptyBuffer ==
    /\ lastOp.name = "add"
    /\ Len(flushes) = 2
    /\ flushes[1].caller = "add-pre"
    /\ flushes[1].before = 0
    /\ Len(sent) = 1

\* C10: when add() gets a record that, with the separators, would meet or exceed
\* bytesLimit while the buffer is non-empty, the first send of that add() carries
\* exactly the previously buffered records, and the new record is alone in a
\* fresh batch: the only buffered record, or delivered alone by a second send.
C10_PreFlushDeliversOldBufferOnly ==
    [][ ( /\ lastOp'.name = "add"
          /\ buffer # <<>>
          /\ bufferBytesSize + lastOp'.size + Len(buffer) >= bytesLimit )
        => LET new == [id |-> added', size |-> lastOp'.size]
           IN  /\ Len(sent') >= 1
               /\ sent'[1].data = buffer
               /\ \A i \in 1..Len(buffer) : buffer[i] # new
               /\ \/ (buffer' = <<new>> /\ bufferBytesSize' = new.size /\ Len(sent') = 1)
                  \/ (buffer' = <<>> /\ Len(sent') = 2 /\ sent'[2].data = <<new>>)
      ]_vars

\* C10 witness: the scenario of the specification: nine 5-byte records, then a
\* 60-byte record: one delivered batch of the nine, and the 60-byte record alone
\* in the buffer.
C10_Witness_NineSmallThenSixty ==
    /\ lastOp.name = "add"
    /\ Len(sent) = 1
    /\ Len(sent[1].data) = 9
    /\ \A i \in 1..9 : sent[1].data[i] = [id |-> i, size |-> 5]
    /\ sent[1].size = 9 * 5 + 8
    /\ buffer = <<[id |-> 10, size |-> 60]>>
    /\ bufferBytesSize = 60

\* C11: after any interleaving of add(), timer flushes, visibility and unload
\* flushes and explicit flush() calls, the batches handed to HttpRequest.send,
\* in the order they left, followed by the buffer, are the messages given to
\* add() in the order they were given: none dropped, duplicated or moved.
C11_DeliveredThenBufferedIsAdded ==
    delivered \o Ids(buffer) = [i \in 1..added |-> i]

\* the unload listeners sent a batch of several messages after at least three
\* messages had left in earlier batches
C11_Witness_SeveralBatchesByUnload ==
    /\ lastOp.name = "beforeunload"
    /\ Len(sent) = 1
    /\ Len(sent[1].data) >= 2
    /\ Len(delivered) >= Len(sent[1].data) + 3

\* the elements of a sequence
Range(seq) == { seq[i] : i \in DOMAIN seq }

\* C14: whenever beforeunload fires or the document becomes hidden, the buffer is
\* flushed during that event, with or without sendBeacon: every buffered
\* message is handed to HttpRequest.send by the listeners and the buffer is
\* empty afterwards.
C14_FlushedOnUnloadOrHidden ==
    [][ lastOp'.name \in {"beforeunload", "hidden"}
        => /\ Range(Ids(buffer)) \subseteq Range(IdsSent(sent'))
           /\ buffer' = <<>>
           /\ bufferBytesSize' = 0
      ]_vars

\* C14, as the code has it: the listeners are registered only on a page with
\* sendBeacon.  There, every message buffered when beforeunload fires or the
\* document becomes hidden is handed to HttpRequest.send during the event; the
\* buffer is empty after a change to hidden, and after beforeunload it holds
\* at most messages a beforeFlushOnUnload handler added during the event.
\* Without sendBeacon the two events send nothing and leave the buffer as it is.
C14_FlushedOnUnloadOrHiddenWithSendBeacon ==
    [][ lastOp'.name \in {"beforeunload", "hidden"}
        => IF sendBeacon
           THEN /\ Range(Ids(buffer)) \subseteq Range(IdsSent(sent'))
                /\ lastOp'.name = "hidden" => buffer' = <<>> /\ bufferBytesSize' = 0
                /\ \A id \in Range(Ids(buffer')) : id > added
           ELSE /\ sent' = <<>>
                /\ buffer' = buffer
                /\ bufferBytesSize' = bufferBytesSize
      ]_vars

\* on a page with sendBeacon the unload listeners sent a buffer of several messages
C14_Witness_UnloadSentTheBuffer ==
    /\ sendBeacon
    /\ lastOp.name = "beforeunload"
    /\ Len(sent) = 1
    /\ Len(sent[1].data) >= 2
    /\ buffer = <<>>

\* C15: on beforeunload (on a page with sendBeacon, where the listeners are
\* registered) the beforeFlushOnUnload handlers are invoked, and every message
\* a handler adds to the batch during the event is handed to HttpRequest.send
\* within the same event, however many Batch instances there are.
C15_HandlerRecordsFlushedOnUnload ==
    [][ (lastOp'.name = "beforeunload" /\ sendBeacon /\ beforeFlushOnUnloadHandlers > 0)
        => /\ added' > added
           /\ (added + 1)..added' \subseteq Range(IdsSent(sent'))
      ]_vars

\* C18: the flush timer re-arms itself: from construction on exactly one timer
\* is pending, each firing calls flush() once and arms the next, and, the timer
\* firing whenever it is due, every message given to add() is in the end
\* handed to HttpRequest.send, whatever else happens or does not happen: time
\* and again all the messages added so far have been handed over.
C18_TimerDeliversEveryMessage ==
    /\ [](timers = 1)
    /\ [][ lastOp'.name = "timer"
           => Len(flushes') = 1 /\ flushes'[1].caller = "timer" ]_vars
    /\ []<>(Range(delivered) = 1..added)

\* the timer fired on a buffer of several messages and sent them
C18_Witness_TimerSentTheBuffer ==
    /\ lastOp.name = "timer"
    /\ timers = 1
    /\ Len(sent) = 1
    /\ Len(sent[1].data) >= 2
    /\ buffer = <<>>

\* the bytes of the messages of a batch
RECURSIVE BytesOf(_)
BytesOf(data) == IF data = <<>> THEN 0 ELSE Head(data).size + BytesOf(Tail(data))

\* the size handed to send() is the bytes of the messages plus one per separator
SizeIsBytesAndSeparators(call) == call.size = BytesOf(call.data) + Len(call.data) - 1

\* C19: every batch handed to HttpRequest.send has as its size the bytes of its
\* messages plus one byte per separator, and that size is below bytesLimit.
C19_NoOversizedBatch ==
    \A i \in DOMAIN sent :
        /\ SizeIsBytesAndSeparators(sent[i])
        /\ sent[i].size < bytesLimit

\* C19, as the code has it: the size is the bytes of the messages plus one byte
\* per separator, and it is below bytesLimit unless the batch is one message
\* that is itself at or above bytesLimit, which is sent alone.
C19_NoOversizedBatchButOneLargeMessage ==
    \A i \in DOMAIN sent :
        /\ SizeIsBytesAndSeparators(sent[i])
        /\ \/ sent[i].size < bytesLimit
           \/ Len(sent[i].data) = 1 /\ sent[i].data[1].size >= bytesLimit

\* an add() of a message above the limit sent the buffered messages as one
\* batch below the limit, then the large message alone
C19_Witness_BufferThenLargeMessageAlone ==
    /\ lastOp.name = "add"
    /\ Len(sent) = 2
    /\ Len(sent[1].data) >= 2
    /\ sent[1].size < bytesLimit
    /\ Len(sent[2].data) = 1
    /\ sent[2].size > bytesLimit

\* ================================================================== claims: TraceIdentifier

\* the value of a digit character, and a digit string read back in base radix
DigitValue(c) == (CHOOSE i \in 1..Len(DigitChars) : DigitChars[i] = c) - 1

RECURSIVE ParseLoop(_, _, _)
ParseLoop(p, str, radix) ==
    IF p.i > Len(str) THEN p.acc
    ELSE ParseLoop([i   |-> p.i + 1,
                    acc |-> Plus(Times(p.acc, radix), Num(DigitValue(str[p.i])))],
                   str, radix)

ParseInBase(str, radix) == ParseLoop([i |-> 1, acc |-> <<>>], str, radix)

\* every value of every round of toString(radix) on buf is an integer a double
\* holds exactly: mod under 2^48, both words under 2^32
RECURSIVE RoundsExact(_, _)
RoundsExact(l, radix) ==
    /\ Len(l.mod) <= 6
    /\ Len(l.high) <= 4
    /\ Len(l.low) <= 4
    /\ \/ l.high = <<>> /\ l.low = <<>>
       \/ RoundsExact(toStringRound(l, radix), radix)

\* C8: for every buffer with the top bit cleared and every valid radix,
\* toString(radix) returns a non-empty string of digits of that radix which, read
\* back in that radix, is the buffer's value as a big-endian integer; the all-zero
\* buffer gives "0".
C8_ToStringParsesBackToBuffer ==
    idRadix # 0 =>
        /\ idBuffer[1] < 128
        /\ Len(idStr) >= 1
        /\ \A i \in 1..Len(idStr) : DigitValue(idStr[i]) < idRadix
        /\ ParseInBase(idStr, idRadix) = Norm(idBuffer)
        /\ (Norm(idBuffer) = <<>> => idStr = <<"0">>)
        /\ RoundsExact(toStringRound([high |-> readInt32(idBuffer, 0),
                                      low  |-> readInt32(idBuffer, 4),
                                      str  |-> <<>>, mod |-> <<>>], idRadix), idRadix)

\* C8 witness: the largest identifier, 2^63 - 1, written in radix 10.
C8_Witness_LargestIdentifierInDecimal ==
    /\ idBuffer = <<127, 255, 255, 255, 255, 255, 255, 255>>
    /\ idRadix = 10
    /\ idStr = << "9", "2", "2", "3", "3", "7", "2", "0", "3", "6",
                  "8", "5", "4", "7", "7", "5", "8", "0", "7" >>

\* ================================================================== claims: request collection

\* the positions in the event log of the events of one kind for one requestId
EventsOf(kind, requestId) ==
    { i \in DOMAIN events : events[i].kind = kind /\ events[i].requestId = requestId }

EventsOfKind(kind) == { i \in DOMAIN events : events[i].kind = kind }

BothSignals == {"readystatechange", "loadend"}

\* the calls of the send wrapper whose handlers have seen both completion signals
XhrCallsCompleted ==
    { id \in DOMAIN calls : calls[id].type = "xhr" /\ calls[id].signals = BothSignals }

\* C2: for one send() through the XMLHttpRequest wrapper, once the readystatechange
\* handler has seen DONE and the loadend listener has run, in either order and
\* any number of times, exactly one complete event with the requestId of that
\* call has been published.
C2_BothSignalsOneCompleteEvent ==
    \A id \in XhrCallsCompleted : Cardinality(EventsOf("complete", id)) = 1

\* C3: when the page has made N send() calls through the XMLHttpRequest wrapper
\* and the completion signals of all of them have fired, in any interleaving,
\* exactly N start events and exactly N complete events have been published,
\* and every complete event carries the requestId of exactly one start event,
\* which no other complete event carries.
C3_NCallsNStartsNCompletes ==
    (appCalls.xhr > 0 /\ Cardinality(XhrCallsCompleted) = appCalls.xhr) =>
        /\ Cardinality(EventsOfKind("start")) = appCalls.xhr
        /\ Cardinality(EventsOfKind("complete")) = appCalls.xhr
        /\ \A i \in EventsOfKind("complete") :
              /\ Cardinality(EventsOf("start", events[i].requestId)) = 1
              /\ EventsOf("complete", events[i].requestId) = {i}

\* C4: on both surfaces, every complete event in the log comes after a start
\* event with the same requestId: no complete event is published for a
\* requestId whose start event has not been published.
C4_StartBeforeComplete ==
    \A i \in EventsOfKind("complete") :
        \E j \in EventsOf("start", events[i].requestId) : j < i

\* a request of each surface has been reported
C4_Witness_BothSurfacesReported ==
    /\ \E i \in EventsOfKind("complete") : events[i].type = "xhr"
    /\ \E i \in EventsOfKind("complete") : events[i].type = "fetch"

HeaderNames(headers) == { h.name : h \in headers }

\* C5: with no upstream trace active, a send() on an XMLHttpRequest opened to a
\* cross-origin url reaches the original send with none of the five x-datadog
\* headers set, and one opened to a same-origin url reaches it with all five
\* (stated for the calls that did not throw to the page).
C5_TraceHeadersOnSameOriginOnly ==
    (lastCall.surface = "xhr" /\ ~tracerActive /\ ~lastCall.threw) =>
        /\ lastCall.url = "cross-origin" =>
              /\ HeaderNames(lastCall.passed) \cap TraceHeaderNames = {}
              /\ HeaderNames(xhr[lastCall.target].headers) \cap TraceHeaderNames = {}
        /\ lastCall.url = "same-origin" =>
              /\ lastCall.originals = 1
              /\ TraceHeaderNames \subseteq HeaderNames(lastCall.passed)

\* the complete events of the wrapper calls attached to promise p
ReportsOf(p) ==
    { i \in EventsOfKind("complete") :
          /\ events[i].type = "fetch"
          /\ calls[events[i].requestId].target = p }

\* C6: for every fetch call whose promise is rejected with the Error of a network
\* failure, exactly one complete event has been published, and it has status 0
\* and a response that is not the empty string.
C6_NetworkErrorReportedOnce ==
    \A p \in DOMAIN promises :
        promises[p].state = "networkError" =>
            /\ Cardinality(ReportsOf(p)) = 1
            /\ \A i \in ReportsOf(p) : events[i].status = 0 /\ events[i].response # ""

\* two fetch calls are in flight and the later one is rejected first
C6_Witness_RejectedWhileAnotherIsPending ==
    /\ Len(promises) >= 2
    /\ promises[1].state = "pending"
    /\ promises[2].state = "networkError"
    /\ Cardinality(ReportsOf(2)) = 1

\* C7: however often startRequestCollection() is called, the XMLHttpRequest and
\* fetch wrappers are installed once (fetch when the page has it), every call
\* returns the same pair of observables, and a send() or fetch() that reaches
\* the original publishes one start event.
C7_StartRequestCollectionIdempotent ==
    /\ observables <= 1
    /\ xhrWrappers <= 1
    /\ fetchWrappers <= 1
    /\ returned # <<>> =>
          /\ xhrWrappers = 1
          /\ fetchWrappers = IF hasFetch THEN 1 ELSE 0
          /\ \A i \in DOMAIN returned : returned[i] = returned[1] /\ returned[i] # 0
    /\ lastCall.starts <= 1
    /\ lastCall.originals = 1 => lastCall.starts = 1

\* startRequestCollection() was called more than once and requests of both
\* surfaces went through the wrappers
C7_Witness_CalledTwiceThenRequests ==
    /\ Len(returned) >= 2
    /\ appCalls.xhr >= 1
    /\ appCalls.fetch >= 1
    /\ lastCall.starts = 1

\* C12: when a tracer with an active scope is there, a call on either surface
\* takes the tracer's identifier: no TraceIdentifier is constructed, and every
\* complete event carries the tracer's identifier as its traceId.
C12_UpstreamIdentifierAdopted ==
    tracerActive =>
        /\ minted = 0
        /\ \A i \in EventsOfKind("complete") : events[i].traceId = UpstreamTraceId

\* C13: when window.crypto cannot give random values (and no tracer is there), a
\* send() or fetch() through the wrappers still returns to the page without an
\* exception, has called the original once and published one start event, and
\* no complete event carries a traceId.
C13_NoIdentifierNoCrash ==
    (~cryptoAvailable /\ ~tracerActive /\ lastCall.surface # "none") =>
        /\ ~lastCall.threw
        /\ lastCall.originals = 1
        /\ lastCall.starts = 1
        /\ lastCall.surface = "fetch" => lastCall.ret.shape = "promise"
        /\ \A i \in EventsOfKind("complete") : events[i].traceId = Undefined

\* the init the original fetch got is the init the page gave, but for added
\* x-datadog headers
InitKeptButTraceHeaders(given, passed) ==
    /\ passed.method = given.method
    /\ given.headers \subseteq passed.headers
    /\ HeaderNames(passed.headers \ given.headers) \subseteq TraceHeaderNames
    /\ given.headersKind # "undefined" => passed.headersKind = given.headersKind

\* C16: for every fetch() through the wrapper, on every page (tracer active or
\* not, origin matching or not) and with init given or left out, the original
\* fetch is called exactly once, with the init of the page changed at most by
\* added x-datadog headers, and the page gets the promise the original returned.
\* (Stated for pages where identifiers can be made; the input is handed on
\* untouched and is not part of the statement.)
C16_FetchCallUnaltered ==
    (lastCall.surface = "fetch" /\ cryptoAvailable) =>
        /\ lastCall.originals = 1
        /\ lastCall.ret = PromiseValue(Len(promises))
        /\ InitKeptButTraceHeaders(lastCall.given, lastCall.passedInit)

\* C17: for every fetch() through the wrapper on a page whose origin matches,
\* with no tracer active and identifiers available, the init the original fetch
\* gets carries the five x-datadog headers, whether the page gave no headers,
\* a plain object, or a Headers object.
C17_FetchInitCarriesTraceHeaders ==
    (lastCall.surface = "fetch" /\ ~tracerActive /\ cryptoAvailable
         /\ origin = locationOrigin) =>
        /\ lastCall.originals = 1
        /\ lastCall.mints = 1
        /\ TraceHeaders(MintedTraceId(minted)) \subseteq lastCall.passedInit.headers

\* C20: for a send() through the XMLHttpRequest wrapper whose request is
\* abandoned before any completion signal fired for it, no complete event
\* with its requestId is ever published, also when the same object is opened
\* and sent again and that later request completes.
C20_AbandonedCallNeverReported ==
    \A id \in DOMAIN calls :
        calls[id].abandoned => EventsOf("complete", id) = {}

\* an abandoned call on an object that was not sent again
C20_AbandonedAndNotSentAgainNeverReported ==
    \A id \in DOMAIN calls :
        /\ calls[id].abandoned
        /\ \A later \in DOMAIN calls :
               later > id => calls[later].target # calls[id].target
        => EventsOf("complete", id) = {}

====
